---- MODULE Spec2Model ----
(***************************************************************************)
(* A model of OpenAIClient (src/src/openai-client.ts): the conversation    *)
(* context buffer, the request path with its error classification, and the *)
(* streaming response decoder.                                              *)
(***************************************************************************)
EXTENDS Integers, Sequences, FiniteSets, TLC

VARIABLES
    context,    \* this.context: the entries held by the client
    last,       \* the most recent call on the context buffer and what it did
    view,       \* the array a caller kept from getContext, if it kept one
    axiosRetryConfig, \* options.axiosRetryConfig, as given to the constructor
    inflight,   \* the HTTP request handed to the transport and not yet answered
    outcome,    \* what the most recent request gave its caller
    wire,       \* bytes of the response body the transport has not delivered yet
    stream,     \* the whole response body, as the server wrote it
    genState,   \* where the streamAsyncIterable generator is suspended
    buffer,     \* the generator's local `buffer`
    lines,      \* the complete lines of the current chunk not yet looked at
    results,    \* what each resolved pull gave the consumer, in order
    other,      \* a second generator of the same client, while the first takes its steps
    transport   \* the Readable: "open", "ended", "errored" or "destroyed"

ctxVars == <<context, last, view>>
reqVars == <<axiosRetryConfig, inflight, outcome>>
decVars == <<wire, stream, genState, buffer, lines, results, transport, other>>
vars == <<context, last, view, axiosRetryConfig, inflight, outcome, wire, stream, genState, buffer,
          lines, results, transport, other>>

(***************************************************************************)
(* Bounds of the model.                                                    *)
(***************************************************************************)
MaxCtx == 3
MaxBatch == 3
MaxMsgs == 2
MaxLines == 2
MaxExtraPulls == 1

\* retries: 3, the count the constructor gives axios-retry
DefaultRetries == 3

(***************************************************************************)
(* JavaScript values.  A value is a record with a tag; typeof is computed   *)
(* from the tag as the language does (typeof null is "object").            *)
(***************************************************************************)
Undefined == [tag |-> "undefined"]
Null == [tag |-> "null"]
Str(s) == [tag |-> "string", s |-> s]
Num(n) == [tag |-> "number", n |-> n]
Obj(role, content) == [tag |-> "object", role |-> role, content |-> content]
Arr(items) == [tag |-> "array", items |-> items]

TypeOf(v) == IF v.tag \in {"object", "null", "array"} THEN "object" ELSE v.tag

IsArray(v) == v.tag = "array"

\* v.name for a value v that is not null or undefined: primitives and arrays
\* have no such property.
Prop(v, name) ==
    IF v.tag = "object" THEN (IF name = "role" THEN v.role ELSE v.content)
    ELSE Undefined

(***************************************************************************)
(* Faults.                                                                 *)
(***************************************************************************)
NoFault == [name |-> "none", message |-> ""]
JsError(msg) == [name |-> "Error", message |-> msg]
\* reading a property of null
NullPropertyTypeError ==
    [name |-> "TypeError", message |-> "Cannot read properties of null (reading 'role')"]

EntryMessage ==
    "Context entry must be an object with role (\"system\", \"user\", or \"assistant\") and content properties"
ArrayMessage == "Input must be an array of context entries"

Roles == {Str("system"), Str("user"), Str("assistant")}

(***************************************************************************)
(* The context buffer.                                                     *)
(***************************************************************************)
\* addToContext on a buffer holding ctx: the buffer afterwards and the fault
\* thrown, if any.
AddToContextPrepends(ctx, contextEntry) ==
    IF TypeOf(contextEntry) # "object" THEN [context |-> ctx, fault |-> JsError(EntryMessage)]
    ELSE IF contextEntry.tag = "null" THEN [context |-> ctx, fault |-> NullPropertyTypeError]
    ELSE IF /\ Prop(contextEntry, "role") \in Roles
            /\ TypeOf(Prop(contextEntry, "content")) = "string"
         THEN [context |-> <<contextEntry>> \o ctx, fault |-> NoFault]
         ELSE [context |-> ctx, fault |-> JsError(EntryMessage)]

addToContext(ctx, contextEntry) ==
    IF TypeOf(contextEntry) # "object" THEN [context |-> ctx, fault |-> JsError(EntryMessage)]
    ELSE IF contextEntry.tag = "null" THEN [context |-> ctx, fault |-> NullPropertyTypeError]
    ELSE IF /\ Prop(contextEntry, "role") \in Roles
            /\ TypeOf(Prop(contextEntry, "content")) = "string"
         THEN [context |-> Append(ctx, contextEntry), fault |-> NoFault]
         ELSE [context |-> ctx, fault |-> JsError(EntryMessage)]

\* the for-of loop of addBatchToContext: a throw of addToContext leaves the loop
RECURSIVE BatchLoop(_, _)
BatchLoop(ctx, entries) ==
    IF entries = <<>> THEN [context |-> ctx, fault |-> NoFault]
    ELSE LET r == addToContext(ctx, Head(entries))
         IN  IF r.fault # NoFault THEN r ELSE BatchLoop(r.context, Tail(entries))

\* a batch append that takes an argument that is no array as an empty batch
AddBatchToContextNoArrayCheck(ctx, contextEntries) ==
    IF IsArray(contextEntries) THEN BatchLoop(ctx, contextEntries.items)
    ELSE [context |-> ctx, fault |-> NoFault]

addBatchToContext(ctx, contextEntries) ==
    IF IsArray(contextEntries) THEN BatchLoop(ctx, contextEntries.items)
    ELSE [context |-> ctx, fault |-> JsError(ArrayMessage)]

getContext == context

\* a clear that keeps the first entry
ClearContextKeepsHead == IF context = <<>> THEN <<>> ELSE <<Head(context)>>

clearContext == <<>>

(***************************************************************************)
(* Arguments the callers pass.                                             *)
(***************************************************************************)
ValidEntries ==
    {Obj(r, Str("hi")) : r \in Roles} \cup {Obj(Str("user"), Str(""))}

InvalidEntries ==
    { Obj(Str("invalid"), Str("hi")),     \* role outside the enumeration
      Obj(Undefined, Str("hi")),          \* no role
      Obj(Str("user"), Num(42)),          \* content that is not text
      Obj(Str("user"), Undefined),        \* no content
      Obj(Str("user"), Null),
      Str("user"),                        \* not an object
      Undefined,
      Arr(<<>>),
      Null }

EntryArgs == ValidEntries \cup InvalidEntries

BatchItems ==
    { Obj(Str("system"), Str("hi")), Obj(Str("user"), Str("hi")),
      Obj(Str("invalid"), Str("hi")), Null }

SeqsUpTo(S, n) == UNION { [1..k -> S] : k \in 0..n }

BatchArgs ==
    { Arr(items) : items \in SeqsUpTo(BatchItems, MaxBatch) }
        \cup { Undefined, Null, Str("user"), Obj(Str("user"), Str("hi")) }

\* the array a caller holds: none, the client's own array (what getContext
\* returns), or an array the client has let go of, with its items
NoView == [state |-> "none", items |-> <<>>]
Alias == [state |-> "alias", items |-> <<>>]
Detached(items) == [state |-> "detached", items |-> items]

\* what the caller reads through the array it kept
ViewItems == IF view = Alias THEN context ELSE view.items

Call(op, prevOp, arg, pre, fault, result) ==
    [op |-> op, prevOp |-> prevOp, arg |-> arg, pre |-> pre, fault |-> fault,
     result |-> result]

(***************************************************************************)
(* Context buffer operations.                                              *)
(***************************************************************************)
AddToContext(contextEntry) ==
    /\ Len(context) < MaxCtx
    /\ LET r == addToContext(context, contextEntry)
       IN  /\ context' = r.context
           /\ last' = Call("addToContext", last.op, contextEntry, context, r.fault, <<>>)
    /\ UNCHANGED <<view, reqVars, decVars>>

AddBatchToContext(contextEntries) ==
    /\ IsArray(contextEntries) => Len(context) + Len(contextEntries.items) <= MaxCtx
    /\ LET r == addBatchToContext(context, contextEntries)
       IN  /\ context' = r.context
           /\ last' = Call("addBatchToContext", last.op, contextEntries, context, r.fault, <<>>)
    /\ UNCHANGED <<view, reqVars, decVars>>

\* the caller reads what getContext returns and lets it go
GetContext ==
    /\ last' = Call("getContext", last.op, Undefined, context, NoFault, getContext)
    /\ UNCHANGED <<context, view, reqVars, decVars>>

\* the caller keeps what getContext returns: this.context itself
KeepContext ==
    /\ last' = Call("getContext", last.op, Undefined, context, NoFault, getContext)
    /\ view' = Alias
    /\ UNCHANGED <<context, reqVars, decVars>>

\* this.context.length = 0: the array is emptied where it is, and an array a
\* caller kept is still the client's
ClearContextInPlace ==
    /\ context' = <<>>
    /\ last' = Call("clearContext", last.op, Undefined, context, NoFault, <<>>)
    /\ UNCHANGED <<view, reqVars, decVars>>

\* this.context = []: an array a caller kept is the old one from here on
ClearContext ==
    /\ context' = clearContext
    /\ last' = Call("clearContext", last.op, Undefined, context, NoFault, <<>>)
    /\ view' = IF view = Alias THEN Detached(context) ELSE view
    /\ UNCHANGED <<reqVars, decVars>>

\* the caller pushes a value onto the array it kept
ViewPush(v) ==
    /\ view # NoView
    /\ Len(ViewItems) < MaxCtx
    /\ IF view = Alias
       THEN /\ context' = Append(context, v)
            /\ UNCHANGED view
       ELSE /\ view' = Detached(Append(view.items, v))
            /\ UNCHANGED context
    /\ UNCHANGED <<last, reqVars, decVars>>

Idle == [op |-> "idle"]

\* no second generator: one streaming call at most was made
NoOther ==
    [id |-> 0, wire |-> <<>>, stream |-> <<>>, genState |-> "unused", buffer |-> <<>>,
     lines |-> <<>>, results |-> <<>>, transport |-> "open"]
NoOutcome == [kind |-> "none"]

Init ==
    /\ context = <<>>
    /\ last = Call("new", "new", Undefined, <<>>, NoFault, <<>>)
    /\ view = NoView
    /\ axiosRetryConfig = Undefined
    /\ inflight = Idle
    /\ outcome = NoOutcome
    /\ wire = <<>>
    /\ stream = <<>>
    /\ genState = "unused"
    /\ buffer = <<>>
    /\ lines = <<>>
    /\ results = <<>>
    /\ transport = "open"
    /\ other = NoOther

Next ==
    \/ \E e \in EntryArgs : AddToContext(e)
    \/ \E b \in BatchArgs : AddBatchToContext(b)
    \/ GetContext
    \/ ClearContext

Spec == Init /\ [][Next]_vars

(***************************************************************************)
(* Requests.  A request descriptor is what the client hands to axios; via   *)
(* says whether it goes through this.request (with its catch) or straight   *)
(* through this.client.post (the streaming branches).                       *)
(***************************************************************************)
Request(op, via, method, url, data, responseType, options, contextAtCall) ==
    [op |-> op, via |-> via, method |-> method, url |-> url, data |-> data,
     responseType |-> responseType, options |-> options,
     contextAtCall |-> contextAtCall]

\* const messages = [...options.messages, ...this.context]
ChatMessagesContextLast(ctx, options) == options.messages \o ctx

\* const messages = [...this.context, ...options.messages]
chatMessages(ctx, options) == ctx \o options.messages

\* const payload = { ...options, messages }
chatPayload(ctx, options) == [options EXCEPT !.messages = chatMessages(ctx, options)]

createChatCompletion(ctx, options) ==
    IF options.stream
    THEN Request("createChatCompletion", "post", "POST", "/chat/completions",
                 chatPayload(ctx, options), "stream", options, ctx)
    ELSE Request("createChatCompletion", "request", "POST", "/chat/completions",
                 chatPayload(ctx, options), "json", options, ctx)

createCompletion(ctx, options) ==
    IF options.stream
    THEN Request("createCompletion", "post", "POST", "/completions",
                 options, "stream", options, ctx)
    ELSE Request("createCompletion", "request", "POST", "/completions",
                 options, "json", options, ctx)

listModels(ctx) ==
    Request("listModels", "request", "GET", "/models", Null, "json", Null, ctx)

(***************************************************************************)
(* Responses and their classification.                                     *)
(***************************************************************************)
\* JavaScript truthiness of the values a message can be
Truthy(v) ==
    CASE v.tag = "undefined" -> FALSE
      [] v.tag = "null"      -> FALSE
      [] v.tag = "string"    -> v.s # ""
      [] v.tag = "number"    -> v.n # 0
      [] OTHER               -> TRUE

\* a response body that is an object: { error: e }
Body(e) == [tag |-> "object", error |-> e]
\* the error member of a body: { message: m }
ErrorObj(m) == [tag |-> "object", message |-> m]

\* (data as ErrorResponse)?.error?.message
BodyErrorMessage(data) ==
    IF data.tag # "object" THEN Undefined
    ELSE IF data.error.tag # "object" THEN Undefined
    ELSE data.error.message

\* the error axios rejects with
AxiosError(hasResponse, status, data, hasRequest, message) ==
    [name |-> "AxiosError", hasResponse |-> hasResponse, status |-> status,
     data |-> data, hasRequest |-> hasRequest, message |-> message]

\* the message axios gives a rejected status
StatusMessage(status) == "Request failed with status code " \o ToString(status)

OpenAIError(name, message, statusCode, data) ==
    [name |-> name, message |-> message, statusCode |-> statusCode, data |-> data]

\* a classification without the 429 case
HandleErrorNoRateLimit(error) ==
    IF error.hasResponse
    THEN LET message == IF Truthy(BodyErrorMessage(error.data))
                        THEN BodyErrorMessage(error.data).s
                        ELSE error.message
         IN  CASE error.status = 400 ->
                    OpenAIError("ValidationError", message, Num(error.status), error.data)
               [] error.status = 401 ->
                    OpenAIError("AuthenticationError", message, Num(error.status), error.data)
               [] OTHER ->
                    OpenAIError("APIError", message, Num(error.status), error.data)
    ELSE IF error.hasRequest
    THEN OpenAIError("OpenAIError", "Network error: " \o error.message, Undefined, Undefined)
    ELSE OpenAIError("OpenAIError", "Error: " \o error.message, Undefined, Undefined)

\* a classification that reports a failure without a response as an API
\* fault of status 0
HandleErrorNoResponseAsApiError(error) ==
    IF error.hasResponse
    THEN LET message == IF Truthy(BodyErrorMessage(error.data))
                        THEN BodyErrorMessage(error.data).s
                        ELSE error.message
         IN  CASE error.status = 400 ->
                    OpenAIError("ValidationError", message, Num(error.status), error.data)
               [] error.status = 401 ->
                    OpenAIError("AuthenticationError", message, Num(error.status), error.data)
               [] error.status = 429 ->
                    OpenAIError("RateLimitError", message, Num(error.status), error.data)
               [] OTHER ->
                    OpenAIError("APIError", message, Num(error.status), error.data)
    ELSE OpenAIError("APIError", error.message, Num(0), Undefined)

handleError(error) ==
    IF error.hasResponse
    THEN LET message == IF Truthy(BodyErrorMessage(error.data))
                        THEN BodyErrorMessage(error.data).s
                        ELSE error.message
         IN  CASE error.status = 400 ->
                    OpenAIError("ValidationError", message, Num(error.status), error.data)
               [] error.status = 401 ->
                    OpenAIError("AuthenticationError", message, Num(error.status), error.data)
               [] error.status = 429 ->
                    OpenAIError("RateLimitError", message, Num(error.status), error.data)
               [] OTHER ->
                    OpenAIError("APIError", message, Num(error.status), error.data)
    ELSE IF error.hasRequest
    THEN OpenAIError("OpenAIError", "Network error: " \o error.message, Undefined, Undefined)
    ELSE OpenAIError("OpenAIError", "Error: " \o error.message, Undefined, Undefined)

\* axios' default validateStatus
ValidateStatus(status) == status >= 200 /\ status < 300

\* no error: the transport resolved
NoError == [name |-> "none", hasResponse |-> FALSE, hasRequest |-> FALSE, message |-> ""]

\* error is what the transport settled with, fault what the caller catches
Outcome(kind, req, status, body, value, fault, error) ==
    [kind |-> kind, op |-> req.op, via |-> req.via, status |-> status,
     body |-> body, value |-> value, fault |-> fault, error |-> error]

\* what the caller of req gets when the transport settles with a response
\* of this status and body
settleResponse(req, status, body) ==
    IF ValidateStatus(status)
    THEN IF req.via = "request"
         THEN Outcome("value", req, status, body, body, NoFault, NoError)
         ELSE Outcome("iterable", req, status, body, Undefined, NoFault, NoError)
    ELSE LET error == AxiosError(TRUE, status, body, TRUE, StatusMessage(status))
         IN  IF req.via = "request"
             THEN Outcome("fault", req, status, body, Undefined, handleError(error), error)
             ELSE Outcome("fault", req, status, body, Undefined, error, error)

\* what the caller of req gets when the transport fails without a response
settleFailure(req, hasRequest, message) ==
    LET error == AxiosError(FALSE, 0, Undefined, hasRequest, message)
    IN  IF req.via = "request"
        THEN Outcome("fault", req, 0, Undefined, Undefined, handleError(error), error)
        ELSE Outcome("fault", req, 0, Undefined, Undefined, error, error)

(***************************************************************************)
(* Sending and re-sending.  The constructor installs axios-retry on the    *)
(* axios instance with retries: 3 and retryCondition: isRetryableError,    *)
(* and options.axiosRetryConfig spread over both.  A request that was      *)
(* rejected is sent again by the transport while fewer than `retries`      *)
(* re-sends were made and the condition holds for its error.               *)
(***************************************************************************)
\* an options.axiosRetryConfig that sets retries
RetryConfig(retries) == [tag |-> "object", retries |-> retries]

\* spread order reversed: the client's retries over the caller's
AxiosRetryOptionsDefaultsLast(config) == [retries |-> DefaultRetries]

\* { retries: 3, ..., ...options.axiosRetryConfig }
axiosRetryOptions(config) ==
    [retries |-> IF config.tag = "object" THEN config.retries ELSE DefaultRetries]

\* the messages axios gives a request it aborted (code ECONNABORTED)
AbortedMessages == { "timeout of 1000ms exceeded" }

\* axios-retry's isRetryableError: not an aborted request, and no response
\* or a 5xx one
isRetryableError(error) ==
    /\ ~(~error.hasResponse /\ error.message \in AbortedMessages)
    /\ \/ ~error.hasResponse
       \/ error.status >= 500 /\ error.status <= 599

\* a send that builds the chat messages again from the buffer as it is
TransmitReadsBuffer(req, ctx) ==
    IF req.op = "createChatCompletion"
    THEN [req.data EXCEPT !.messages = ctx \o req.options.messages]
    ELSE req.data

\* the body that goes out when req is sent while the buffer holds ctx: the
\* payload built by the call
transmit(req, ctx) == req.data

\* the first send of a request
Send(req, ctx) ==
    req @@ [attempts |-> 1, cause |-> "call", sent |-> <<transmit(req, ctx)>>]

\* a transport that sends a rejected request again whatever the error was
ShouldRetryAnyError(req, config, error) ==
    req.attempts - 1 < axiosRetryOptions(config).retries

\* axios-retry: retryCount < retries && retryCondition(error)
shouldRetry(req, config, error) ==
    /\ req.attempts - 1 < axiosRetryOptions(config).retries
    /\ isRetryableError(error)

\* the request sent once more after error
Resend(req, ctx, error) ==
    [req EXCEPT !.attempts = @ + 1,
                !.cause = IF isRetryableError(error) THEN "retryable" ELSE "other",
                !.sent = Append(@, transmit(req, ctx))]

(***************************************************************************)
(* What callers and the server send.                                       *)
(***************************************************************************)
ReqEntries == { Obj(Str("system"), Str("hi")), Obj(Str("user"), Str("hi")) }

CallerMessages == { Obj(Str("user"), Str("q1")), Obj(Str("assistant"), Str("a1")) }

ChatOptions ==
    [model : {"gpt-3.5-turbo"}, messages : SeqsUpTo(CallerMessages, MaxMsgs),
     stream : BOOLEAN, temperature : {1}]

CompletionOptions ==
    [model : {"text-davinci-003"}, prompt : {"Once upon a time"}, stream : BOOLEAN]

Statuses == {200, 304, 400, 401, 404, 429, 500}

Bodies ==
    { Body(ErrorObj(Str("Unauthorized"))),   \* { error: { message: "Unauthorized" } }
      Body(ErrorObj(Str(""))),               \* { error: { message: "" } }
      Body(ErrorObj(Undefined)),             \* { error: {} }
      Body(Undefined),                       \* {}
      Str("Bad Gateway"),                    \* a body that is text
      Null }

FailureMessages == { "Network Error", "timeout of 1000ms exceeded" }

(***************************************************************************)
(* Request operations.                                                     *)
(***************************************************************************)
\* a chat call that keeps the caller's messages: this.context.push(...options.messages)
CreateChatCompletionRemembers(options) ==
    /\ inflight = Idle
    /\ inflight' = Send(createChatCompletion(context, options), context)
    /\ outcome' = NoOutcome
    /\ context' = context \o options.messages
    /\ UNCHANGED <<axiosRetryConfig, last, view, decVars>>

CreateChatCompletion(options) ==
    /\ inflight = Idle
    /\ inflight' = Send(createChatCompletion(context, options), context)
    /\ outcome' = NoOutcome
    /\ UNCHANGED <<axiosRetryConfig, ctxVars, decVars>>

CreateCompletion(options) ==
    /\ inflight = Idle
    /\ inflight' = Send(createCompletion(context, options), context)
    /\ outcome' = NoOutcome
    /\ UNCHANGED <<axiosRetryConfig, ctxVars, decVars>>

ListModels ==
    /\ inflight = Idle
    /\ inflight' = Send(listModels(context), context)
    /\ outcome' = NoOutcome
    /\ UNCHANGED <<axiosRetryConfig, ctxVars, decVars>>

\* the server answers the send: the transport sends the request again, or
\* settles it with this response
Respond(status, body) ==
    /\ inflight # Idle
    /\ LET error == AxiosError(TRUE, status, body, TRUE, StatusMessage(status))
       IN  IF ~ValidateStatus(status) /\ shouldRetry(inflight, axiosRetryConfig, error)
           THEN /\ inflight' = Resend(inflight, context, error)
                /\ UNCHANGED outcome
           ELSE /\ outcome' = settleResponse(inflight, status, body)
                /\ inflight' = Idle
    /\ UNCHANGED <<axiosRetryConfig, ctxVars, decVars>>

\* a send ends without a response: the request was made and nothing came
\* back (hasRequest), or it could not be set up; the transport sends the
\* request again, or settles it with this failure
Fail(hasRequest, message) ==
    /\ inflight # Idle
    /\ LET error == AxiosError(FALSE, 0, Undefined, hasRequest, message)
       IN  IF shouldRetry(inflight, axiosRetryConfig, error)
           THEN /\ inflight' = Resend(inflight, context, error)
                /\ UNCHANGED outcome
           ELSE /\ outcome' = settleFailure(inflight, hasRequest, message)
                /\ inflight' = Idle
    /\ UNCHANGED <<axiosRetryConfig, ctxVars, decVars>>

NextReq ==
    \/ \E e \in ReqEntries : AddToContext(e)
    \/ ClearContext
    \/ \E o \in ChatOptions : CreateChatCompletion(o)
    \/ \E o \in CompletionOptions : CreateCompletion(o)
    \/ ListModels
    \/ \E st \in Statuses, b \in Bodies : Respond(st, b)
    \/ \E hr \in BOOLEAN, m \in FailureMessages : Fail(hr, m)

\* a client built with axiosRetryConfig: { retries: 0 }: every answer and
\* every failure settles the request
InitReq ==
    /\ context = <<>>
    /\ last = Call("new", "new", Undefined, <<>>, NoFault, <<>>)
    /\ view = NoView
    /\ axiosRetryConfig = RetryConfig(0)
    /\ inflight = Idle
    /\ outcome = NoOutcome
    /\ wire = <<>>
    /\ stream = <<>>
    /\ genState = "unused"
    /\ buffer = <<>>
    /\ lines = <<>>
    /\ results = <<>>
    /\ transport = "open"
    /\ other = NoOther

SpecReq == InitReq /\ [][NextReq]_vars

(***************************************************************************)
(* A client with the retries of the constructor, its buffer changed by     *)
(* other tasks while a chat request is in flight and sent again.           *)
(***************************************************************************)
ResendChatOptions ==
    [model : {"gpt-3.5-turbo"}, messages : {<<Obj(Str("user"), Str("q1"))>>},
     stream : BOOLEAN, temperature : {1}]

ResendEntries == { Obj(Str("user"), Str("hi")) }

ResendBodies == { Null }

NextResend ==
    \/ \E e \in ResendEntries : AddToContext(e)
    \/ ClearContext
    \/ \E o \in ResendChatOptions : CreateChatCompletion(o)
    \/ \E st \in Statuses, b \in ResendBodies : Respond(st, b)
    \/ \E hr \in BOOLEAN, m \in FailureMessages : Fail(hr, m)

SpecResend == Init /\ [][NextResend]_vars

(***************************************************************************)
(* A caller that keeps the arrays getContext returns and writes to them,   *)
(* between buffer operations and chat requests.                            *)
(***************************************************************************)
ViewEntries == { Obj(Str("user"), Str("hi")) }
ViewBatches == { Arr(<<Obj(Str("user"), Str("hi")), Obj(Str("user"), Str("hi"))>>) }
ViewValues == { Obj(Str("invalid"), Str("hi")) }
ViewChatOptions ==
    { [model |-> "gpt-3.5-turbo", messages |-> <<Obj(Str("user"), Str("q1"))>>,
       stream |-> FALSE, temperature |-> 1] }

NextView ==
    \/ \E e \in ViewEntries : AddToContext(e)
    \/ \E b \in ViewBatches : AddBatchToContext(b)
    \/ GetContext
    \/ KeepContext
    \/ ClearContext
    \/ \E v \in ViewValues : ViewPush(v)
    \/ \E o \in ViewChatOptions : CreateChatCompletion(o)
    \/ Respond(200, Null)

SpecView == Init /\ [][NextView]_vars

(***************************************************************************)
(* Text.  A string is a sequence of characters and a chunk a sequence of    *)
(* bytes; an ASCII byte and its character are the same one-letter string.   *)
(* The bytes C3 A9 encode the character U+00E9.                             *)
(***************************************************************************)
LeadByte == "C3"
ContByte == "A9"
EAcute == "U+00E9"
Replacement == "U+FFFD"
NL == "\n"

\* chunk.toString(): UTF-8 decoding of one chunk on its own; a byte that is
\* not part of a complete sequence inside the chunk becomes U+FFFD
RECURSIVE toString(_)
toString(chunk) ==
    IF chunk = <<>> THEN <<>>
    ELSE IF Head(chunk) = LeadByte
    THEN IF Len(chunk) >= 2 /\ chunk[2] = ContByte
         THEN <<EAcute>> \o toString(SubSeq(chunk, 3, Len(chunk)))
         ELSE <<Replacement>> \o toString(Tail(chunk))
    ELSE IF Head(chunk) = ContByte
    THEN <<Replacement>> \o toString(Tail(chunk))
    ELSE <<Head(chunk)>> \o toString(Tail(chunk))

\* text.split('\n'): at least one piece, the last one what follows the last newline
RECURSIVE split(_)
split(text) ==
    IF \A i \in 1..Len(text) : text[i] # NL THEN <<text>>
    ELSE LET i == CHOOSE j \in 1..Len(text) :
                        /\ text[j] = NL
                        /\ \A k \in 1..(j - 1) : text[k] # NL
         IN  <<SubSeq(text, 1, i - 1)>> \o split(SubSeq(text, i + 1, Len(text)))

WhiteSpace == {" ", "\n", "\r", "\t"}

RECURSIVE trimStart(_)
trimStart(text) ==
    IF text # <<>> /\ Head(text) \in WhiteSpace THEN trimStart(Tail(text)) ELSE text

RECURSIVE trimEnd(_)
trimEnd(text) ==
    IF text # <<>> /\ text[Len(text)] \in WhiteSpace
    THEN trimEnd(SubSeq(text, 1, Len(text) - 1))
    ELSE text

trim(text) == trimEnd(trimStart(text))

startsWith(text, prefix) ==
    /\ Len(text) >= Len(prefix)
    /\ SubSeq(text, 1, Len(prefix)) = prefix

\* text.replace(pattern, ''): the first occurrence of pattern is removed
replace(text, pattern) ==
    LET at(i) == SubSeq(text, i, i + Len(pattern) - 1) = pattern
        starts == { i \in 1..(Len(text) - Len(pattern) + 1) : at(i) }
    IN  IF starts = {} THEN text
        ELSE LET i == CHOOSE j \in starts : \A k \in starts : j <= k
             IN  SubSeq(text, 1, i - 1) \o SubSeq(text, i + Len(pattern), Len(text))

DataPrefix == <<"d", "a", "t", "a", ":">>
DataSpace == <<"d", "a", "t", "a", ":", " ">>
DoneToken == <<"[", "D", "O", "N", "E", "]">>

(***************************************************************************)
(* JSON.parse on the texts this alphabet can spell: numbers written with    *)
(* the digits 1 and 2, strings without escapes, and arrays of at most one   *)
(* element (there is no comma); whitespace may surround a value.            *)
(***************************************************************************)
Digits == {"1", "2"}
DigitValue(c) == IF c = "1" THEN 1 ELSE 2

RECURSIVE NumberValue(_)
NumberValue(text) ==
    IF Len(text) = 1 THEN DigitValue(text[1])
    ELSE 10 * NumberValue(SubSeq(text, 1, Len(text) - 1)) + DigitValue(text[Len(text)])

JsonString(chars) == [tag |-> "string", chars |-> chars]
ParseOk(value) == [ok |-> TRUE, value |-> value]
ParseFail == [ok |-> FALSE, value |-> Undefined]

RECURSIVE JsonParse(_)
JsonParse(text) ==
    LET t == trim(text)
    IN  IF t = <<>> THEN ParseFail
        ELSE IF \A i \in 1..Len(t) : t[i] \in Digits THEN ParseOk(Num(NumberValue(t)))
        ELSE IF /\ Len(t) >= 2
                /\ t[1] = "\""
                /\ t[Len(t)] = "\""
                /\ \A i \in 2..(Len(t) - 1) : t[i] # "\""
        THEN ParseOk(JsonString(SubSeq(t, 2, Len(t) - 1)))
        ELSE IF Len(t) >= 2 /\ t[1] = "[" /\ t[Len(t)] = "]"
        THEN LET inner == trim(SubSeq(t, 2, Len(t) - 1))
             IN  IF inner = <<>> THEN ParseOk(Arr(<<>>))
                 ELSE LET e == JsonParse(inner)
                      IN  IF e.ok THEN ParseOk(Arr(<<e.value>>)) ELSE ParseFail
        ELSE ParseFail

(***************************************************************************)
(* streamAsyncIterable.                                                    *)
(***************************************************************************)
Step(kind, value, rest) == [kind |-> kind, value |-> value, rest |-> rest]

\* a line loop that steps over a payload it cannot parse
RECURSIVE RunLinesSkippingBadJson(_)
RunLinesSkippingBadJson(ls) ==
    IF ls = <<>> THEN Step("more", Undefined, <<>>)
    ELSE LET trimmed == trim(Head(ls))
         IN  IF startsWith(trimmed, DataPrefix)
             THEN LET content == trim(replace(trimmed, DataSpace))
                  IN  IF content = DoneToken THEN Step("return", Undefined, Tail(ls))
                      ELSE IF JsonParse(content).ok
                      THEN Step("yield", JsonParse(content).value, Tail(ls))
                      ELSE RunLinesSkippingBadJson(Tail(ls))
             ELSE RunLinesSkippingBadJson(Tail(ls))

\* a line loop that steps over the [DONE] line
RECURSIVE RunLinesIgnoringDone(_)
RunLinesIgnoringDone(ls) ==
    IF ls = <<>> THEN Step("more", Undefined, <<>>)
    ELSE LET trimmed == trim(Head(ls))
         IN  IF startsWith(trimmed, DataPrefix)
             THEN LET content == trim(replace(trimmed, DataSpace))
                  IN  IF content = DoneToken THEN RunLinesIgnoringDone(Tail(ls))
                      ELSE IF JsonParse(content).ok
                      THEN Step("yield", JsonParse(content).value, Tail(ls))
                      ELSE Step("throw", Undefined, Tail(ls))
             ELSE RunLinesIgnoringDone(Tail(ls))

\* the loop `for (const line of lines)` from the line it stands at, up to
\* the point where the generator leaves it: a yield, the return on [DONE],
\* the throw of JSON.parse, or the end of the lines
RECURSIVE RunLines(_)
RunLines(ls) ==
    IF ls = <<>> THEN Step("more", Undefined, <<>>)
    ELSE LET trimmed == trim(Head(ls))
         IN  IF startsWith(trimmed, DataPrefix)
             THEN LET content == trim(replace(trimmed, DataSpace))
                  IN  IF content = DoneToken THEN Step("return", Undefined, Tail(ls))
                      ELSE IF JsonParse(content).ok
                      THEN Step("yield", JsonParse(content).value, Tail(ls))
                      ELSE Step("throw", Undefined, Tail(ls))
             ELSE RunLines(Tail(ls))

\* a line loop that takes `data:` off the front of a line, followed by a
\* space or not: trimmed.slice(5).trim()
RECURSIVE RunLinesStrippingPrefix(_)
RunLinesStrippingPrefix(ls) ==
    IF ls = <<>> THEN Step("more", Undefined, <<>>)
    ELSE LET trimmed == trim(Head(ls))
         IN  IF startsWith(trimmed, DataPrefix)
             THEN LET content == trim(SubSeq(trimmed, Len(DataPrefix) + 1, Len(trimmed)))
                  IN  IF content = DoneToken THEN Step("return", Undefined, Tail(ls))
                      ELSE IF JsonParse(content).ok
                      THEN Step("yield", JsonParse(content).value, Tail(ls))
                      ELSE Step("throw", Undefined, Tail(ls))
             ELSE RunLinesStrippingPrefix(Tail(ls))

\* a line loop that leaves the lines of a chunk alone and asks for the next chunk
LineLoopWaitsForChunk(ls) == Step("more", Undefined, ls)

lineLoop(ls) == RunLines(ls)

Item(value) == [kind |-> "item", value |-> value, error |-> "none"]
Exhausted == [kind |-> "done", value |-> Undefined, error |-> "none"]
Thrown(error) == [kind |-> "throw", value |-> Undefined, error |-> error]

\* the generator runs the line loop over ls with `buffer` holding held: the
\* pending pull resolves, or the generator goes on to wait for a chunk.  A
\* return or a throw inside `for await` closes the stream's iterator, which
\* destroys the stream; a stream that has already failed rejects the read.
Resume(ls, held) ==
    \E step \in { lineLoop(ls) } :
        /\ buffer' = held
        /\ lines' = step.rest
        /\ CASE step.kind = "yield" ->
                    /\ genState' = "suspendedYield"
                    /\ results' = Append(results, Item(step.value))
                    /\ UNCHANGED transport
             [] step.kind = "return" ->
                    /\ genState' = "completed"
                    /\ results' = Append(results, Exhausted)
                    /\ transport' = IF transport = "open" THEN "destroyed" ELSE transport
             [] step.kind = "throw" ->
                    /\ genState' = "completed"
                    /\ results' = Append(results, Thrown("SyntaxError"))
                    /\ transport' = IF transport = "open" THEN "destroyed" ELSE transport
             [] step.kind = "more" ->
                    IF transport = "errored"
                    THEN /\ genState' = "completed"
                         /\ results' = Append(results, Thrown("StreamError"))
                         /\ UNCHANGED transport
                    ELSE /\ genState' = "awaiting"
                         /\ UNCHANGED <<results, transport>>

(***************************************************************************)
(* The response bodies a server writes: up to MaxLines lines, the last one  *)
(* with or without its newline.                                            *)
(***************************************************************************)
LineTemplates ==
    { <<"d", "a", "t", "a", ":", " ", "1">>,                          \* data: 1
      <<"d", "a", "t", "a", ":", " ", "\"", LeadByte, ContByte, "\"">>, \* data: "e-acute"
      <<"d", "a", "t", "a", ":", " ", "x">>,                          \* data: x
      <<"d", "a", "t", "a", ":", " ", "[", "D", "O", "N", "E", "]">>,  \* data: [DONE]
      <<":">>,                                                        \* a comment
      <<>> }                                                          \* a blank line

RECURSIVE Join(_)
Join(ls) == IF ls = <<>> THEN <<>> ELSE Head(ls) \o <<NL>> \o Join(Tail(ls))

Streams ==
    LET bodies == { Join(ls) : ls \in SeqsUpTo(LineTemplates, MaxLines) }
    IN  bodies \cup { SubSeq(b, 1, Len(b) - 1) : b \in bodies \ {<<>>} }

InitStream ==
    /\ context = <<>>
    /\ last = Call("new", "new", Undefined, <<>>, NoFault, <<>>)
    /\ view = NoView
    /\ axiosRetryConfig = Undefined
    /\ inflight = Idle
    /\ outcome = NoOutcome
    /\ stream \in Streams
    /\ wire = stream
    /\ genState = "suspendedStart"
    /\ buffer = <<>>
    /\ lines = <<>>
    /\ results = <<>>
    /\ transport = "open"
    /\ other = NoOther

\* pulls made after the generator completed
ExtraPulls == Cardinality({ i \in 1..Len(results) : results[i].kind # "item" }) - 1

\* a pull that runs a completed generator again over the lines it left
PullRestartsCompleted ==
    /\ \/ /\ genState = "suspendedStart"
          /\ Resume(<<>>, <<>>)
       \/ /\ genState = "suspendedYield"
          /\ Resume(lines, buffer)
       \/ /\ genState = "completed"
          /\ ExtraPulls < MaxExtraPulls
          /\ Resume(lines, buffer)
    /\ UNCHANGED <<wire, stream, other, ctxVars, reqVars>>

\* the consumer asks for the next item
Pull ==
    /\ \/ /\ genState = "suspendedStart"
          /\ Resume(<<>>, <<>>)
       \/ /\ genState = "suspendedYield"
          /\ Resume(lines, buffer)
       \/ /\ genState = "completed"
          /\ ExtraPulls < MaxExtraPulls
          /\ results' = Append(results, Exhausted)
          /\ UNCHANGED <<genState, buffer, lines, transport>>
    /\ UNCHANGED <<wire, stream, other, ctxVars, reqVars>>

\* the stream hands the waiting generator its next chunk, the next k bytes
Deliver(k) ==
    /\ genState = "awaiting"
    /\ transport = "open"
    /\ k \in 1..Len(wire)
    /\ wire' = SubSeq(wire, k + 1, Len(wire))
    /\ \E data \in { toString(SubSeq(wire, 1, k)) } :
       \E pieces \in { split(buffer \o data) } :
          Resume(SubSeq(pieces, 1, Len(pieces) - 1), pieces[Len(pieces)])
    /\ UNCHANGED <<stream, other, ctxVars, reqVars>>

\* an end of the stream that runs the held-back text through the line loop
\* as one more line
EndFlushesBuffer ==
    /\ genState = "awaiting"
    /\ transport = "open"
    /\ wire = <<>>
    /\ transport' = "ended"
    /\ genState' = "completed"
    /\ buffer' = <<>>
    /\ \E step \in { lineLoop(<<buffer>>) } :
          results' = Append(results,
                            IF step.kind = "yield" THEN Item(step.value)
                            ELSE IF step.kind = "throw" THEN Thrown("SyntaxError")
                            ELSE Exhausted)
    /\ UNCHANGED <<wire, stream, lines, other, ctxVars, reqVars>>

\* the body is complete and the stream ends
End ==
    /\ genState = "awaiting"
    /\ transport = "open"
    /\ wire = <<>>
    /\ transport' = "ended"
    /\ genState' = "completed"
    /\ results' = Append(results, Exhausted)
    /\ UNCHANGED <<wire, stream, buffer, lines, other, ctxVars, reqVars>>

\* a connection failure that ends a waiting generator without a fault
TransportErrorEndsQuietly ==
    /\ transport = "open"
    /\ genState \in {"suspendedStart", "suspendedYield", "awaiting"}
    /\ transport' = "errored"
    /\ IF genState = "awaiting"
       THEN /\ genState' = "completed"
            /\ results' = Append(results, Exhausted)
       ELSE UNCHANGED <<genState, results>>
    /\ UNCHANGED <<wire, stream, buffer, lines, other, ctxVars, reqVars>>

\* the connection fails; a stream that failed while the generator was
\* suspended keeps the error and rejects the generator's next read
TransportError ==
    /\ transport = "open"
    /\ genState \in {"suspendedStart", "suspendedYield", "awaiting"}
    /\ transport' = "errored"
    /\ IF genState = "awaiting"
       THEN /\ genState' = "completed"
            /\ results' = Append(results, Thrown("StreamError"))
       ELSE UNCHANGED <<genState, results>>
    /\ UNCHANGED <<wire, stream, buffer, lines, other, ctxVars, reqVars>>

NextStream ==
    \/ Pull
    \/ \E k \in 1..Len(wire) : Deliver(k)
    \/ End
    \/ TransportError

SpecStream == InitStream /\ [][NextStream]_vars

\* the transport's steps: a chunk, the end of the body, a failure
TransportStep ==
    \/ TransportError
    \/ End
    \/ \E k \in 1..Len(wire) : Deliver(k)

\* bodies of lines with a payload, with a payload that is not JSON, and [DONE]
FairLineTemplates ==
    { <<"d", "a", "t", "a", ":", " ", "1">>,
      <<"d", "a", "t", "a", ":", " ", "x">>,
      <<"d", "a", "t", "a", ":", " ", "[", "D", "O", "N", "E", "]">> }

FairStreams ==
    LET bodies == { Join(ls) : ls \in SeqsUpTo(FairLineTemplates, MaxLines) }
    IN  bodies \cup { SubSeq(b, 1, Len(b) - 1) : b \in bodies \ {<<>>} }

InitStreamFair ==
    /\ context = <<>>
    /\ last = Call("new", "new", Undefined, <<>>, NoFault, <<>>)
    /\ view = NoView
    /\ axiosRetryConfig = Undefined
    /\ inflight = Idle
    /\ outcome = NoOutcome
    /\ stream \in FairStreams
    /\ wire = stream
    /\ genState = "suspendedStart"
    /\ buffer = <<>>
    /\ lines = <<>>
    /\ results = <<>>
    /\ transport = "open"
    /\ other = NoOther

\* a consumer that keeps pulling (for await) over a transport that does not
\* fall silent: it goes on delivering until it ends or fails
SpecStreamFair ==
    /\ InitStreamFair
    /\ [][NextStream]_vars
    /\ WF_vars(Pull)
    /\ WF_vars(TransportStep)

(***************************************************************************)
(* Clients with the constructor's retries and with retries of their own,   *)
(* their requests, and the body of a streaming request that was answered.  *)
(***************************************************************************)
RetryConfigs == { Undefined, RetryConfig(0), RetryConfig(1), RetryConfig(4) }

InitRetry ==
    /\ context = <<>>
    /\ last = Call("new", "new", Undefined, <<>>, NoFault, <<>>)
    /\ view = NoView
    /\ axiosRetryConfig \in RetryConfigs
    /\ inflight = Idle
    /\ outcome = NoOutcome
    /\ wire = <<>>
    /\ stream = <<>>
    /\ genState = "unused"
    /\ buffer = <<>>
    /\ lines = <<>>
    /\ results = <<>>
    /\ transport = "open"
    /\ other = NoOther

\* bodies: an item, then a line that is not JSON; an item and no more
RetryStreams ==
    { Join(<< <<"d", "a", "t", "a", ":", " ", "1">>,
              <<"d", "a", "t", "a", ":", " ", "x">> >>),
      Join(<< <<"d", "a", "t", "a", ":", " ", "1">> >>) }

\* return this.streamAsyncIterable(response.data): the caller of a streaming
\* request that was answered holds the generator over the response's body
StreamBody(body) ==
    /\ outcome.kind = "iterable"
    /\ genState = "unused"
    /\ stream' = body
    /\ wire' = body
    /\ genState' = "suspendedStart"
    /\ UNCHANGED <<buffer, lines, results, transport, other, ctxVars, reqVars>>

NextRetry ==
    \/ \E o \in CompletionOptions : CreateCompletion(o)
    \/ ListModels
    \/ \E st \in Statuses, b \in ResendBodies : Respond(st, b)
    \/ \E hr \in BOOLEAN, m \in FailureMessages : Fail(hr, m)
    \/ \E body \in RetryStreams : StreamBody(body)
    \/ Pull
    \/ \E k \in 1..Len(wire) : Deliver(k)
    \/ End
    \/ TransportError

SpecRetry == InitRetry /\ [][NextRetry]_vars

(***************************************************************************)
(* A consumer that gives the sequence up: `break` in a for await loop, or  *)
(* a call of the iterator's return().  A generator suspended at its yield  *)
(* unwinds through the for await over the stream, which destroys the       *)
(* stream; a generator that never started completes without running any of *)
(* its body.  A return() made while a pull is pending waits for that pull  *)
(* and is taken here at the yield the pull ends in.                        *)
(***************************************************************************)
Returned == [kind |-> "return", value |-> Undefined, error |-> "none"]

HasReturned == \E i \in 1..Len(results) : results[i] = Returned

Return ==
    /\ ~HasReturned
    /\ genState \in {"suspendedStart", "suspendedYield", "completed"}
    /\ genState' = "completed"
    /\ results' = Append(results, Returned)
    /\ transport' = IF genState = "suspendedYield" /\ transport = "open"
                    THEN "destroyed" ELSE transport
    /\ UNCHANGED <<wire, stream, buffer, lines, other, ctxVars, reqVars>>

NextAbandon ==
    \/ Pull
    \/ \E k \in 1..Len(wire) : Deliver(k)
    \/ End
    \/ TransportError
    \/ Return

SpecAbandon == InitStream /\ [][NextAbandon]_vars

(***************************************************************************)
(* Bodies whose data: lines come with and without the space after the      *)
(* colon.                                                                  *)
(***************************************************************************)
PrefixLineTemplates ==
    { <<"d", "a", "t", "a", ":", " ", "1">>,                          \* data: 1
      <<"d", "a", "t", "a", ":", "1">>,                               \* data:1
      <<"d", "a", "t", "a", ":", "[", "D", "O", "N", "E", "]">>,       \* data:[DONE]
      <<"d", "a", "t", "a", ":">>,                                    \* data:
      <<"d", "a", "t", "a", ":", "d", "a", "t", "a", ":", " ", "1">> } \* data:data: 1

PrefixStreams ==
    LET bodies == { Join(ls) : ls \in SeqsUpTo(PrefixLineTemplates, MaxLines) }
    IN  bodies \cup { SubSeq(b, 1, Len(b) - 1) : b \in bodies \ {<<>>} }

InitStreamPrefix ==
    /\ context = <<>>
    /\ last = Call("new", "new", Undefined, <<>>, NoFault, <<>>)
    /\ view = NoView
    /\ axiosRetryConfig = Undefined
    /\ inflight = Idle
    /\ outcome = NoOutcome
    /\ stream \in PrefixStreams
    /\ wire = stream
    /\ genState = "suspendedStart"
    /\ buffer = <<>>
    /\ lines = <<>>
    /\ results = <<>>
    /\ transport = "open"
    /\ other = NoOther

SpecStreamPrefix == InitStreamPrefix /\ [][NextStream]_vars

(***************************************************************************)
(* Two streaming calls of one client, both answered.  Each call of         *)
(* streamAsyncIterable makes a generator with its own `buffer`, its own    *)
(* place in the line loop and its own stream; the event loop runs one      *)
(* generator's step at a time.  The decoder variables are those of the     *)
(* generator whose step is next, `other` holds the other generator's.      *)
(***************************************************************************)
\* the generator whose step is next, as a record
Running ==
    [id |-> 3 - other.id, wire |-> wire, stream |-> stream, genState |-> genState,
     buffer |-> buffer, lines |-> lines, results |-> results, transport |-> transport]

\* two generators that keep their text in one place, this.buffer
SwitchSharingBuffer ==
    /\ other # NoOther
    /\ other' = [Running EXCEPT !.buffer = other.buffer]
    /\ wire' = other.wire
    /\ stream' = other.stream
    /\ genState' = other.genState
    /\ lines' = other.lines
    /\ results' = other.results
    /\ transport' = other.transport
    /\ UNCHANGED <<buffer, ctxVars, reqVars>>

\* the event loop turns to the other generator
Switch ==
    /\ other # NoOther
    /\ other' = Running
    /\ wire' = other.wire
    /\ stream' = other.stream
    /\ genState' = other.genState
    /\ buffer' = other.buffer
    /\ lines' = other.lines
    /\ results' = other.results
    /\ transport' = other.transport
    /\ UNCHANGED <<ctxVars, reqVars>>

\* bodies: an item and a line that is not JSON; an item and [DONE]; two
\* items, the second without its newline
PairStreams ==
    { Join(<< <<"d", "a", "t", "a", ":", " ", "1">>,
              <<"d", "a", "t", "a", ":", " ", "x">> >>),
      Join(<< <<"d", "a", "t", "a", ":", " ", "2">>,
              <<"d", "a", "t", "a", ":", " ", "[", "D", "O", "N", "E", "]">> >>),
      Join(<< <<"d", "a", "t", "a", ":", " ", "1">> >>) \o <<"d", "a", "t", "a", ":", " ", "2">> }

InitPair ==
    /\ context = <<>>
    /\ last = Call("new", "new", Undefined, <<>>, NoFault, <<>>)
    /\ view = NoView
    /\ axiosRetryConfig = Undefined
    /\ inflight = Idle
    /\ outcome = NoOutcome
    /\ stream \in PairStreams
    /\ wire = stream
    /\ genState = "suspendedStart"
    /\ buffer = <<>>
    /\ lines = <<>>
    /\ results = <<>>
    /\ transport = "open"
    /\ \E body \in PairStreams :
          other = [id |-> 2, wire |-> body, stream |-> body, genState |-> "suspendedStart",
                   buffer |-> <<>>, lines |-> <<>>, results |-> <<>>, transport |-> "open"]

NextPair ==
    \/ Pull
    \/ \E k \in 1..Len(wire) : Deliver(k)
    \/ End
    \/ TransportError
    \/ Switch

SpecPair == InitPair /\ [][NextPair]_vars

(***************************************************************************)
(* What the claims call a valid entry and a valid batch.                   *)
(***************************************************************************)
IsValidEntry(e) ==
    IF e.tag # "object" THEN FALSE
    ELSE /\ e.role \in {Str("system"), Str("user"), Str("assistant")}
         /\ e.content.tag = "string"

\* position of the first entry of items that is not valid, 0 when all are
FirstInvalid(items) ==
    IF \A i \in 1..Len(items) : IsValidEntry(items[i]) THEN 0
    ELSE CHOOSE k \in 1..Len(items) :
            /\ ~IsValidEntry(items[k])
            /\ \A i \in 1..(k - 1) : IsValidEntry(items[i])

\* C1: appending a valid entry succeeds, the snapshot grows by exactly one,
\* the new entry is last, and the entries held before keep their values and
\* their order.
C1_AppendValidGrowsByOne ==
    (last.op = "addToContext" /\ IsValidEntry(last.arg)) =>
        /\ last.fault = NoFault
        /\ Len(getContext) = Len(last.pre) + 1
        /\ getContext[Len(getContext)] = last.arg
        /\ SubSeq(getContext, 1, Len(last.pre)) = last.pre

C1_Witness ==
    /\ last.op = "addToContext"
    /\ IsValidEntry(last.arg)
    /\ Len(last.pre) = 2
    /\ last.pre[1] # last.pre[2]
    /\ last.arg # last.pre[2]

\* C2: appending an argument that is not a valid entry (null included) raises
\* a fault carrying the entry message and leaves the buffer as it was.
C2_InvalidRaisesEntryMessage ==
    (last.op = "addToContext" /\ ~IsValidEntry(last.arg)) =>
        /\ last.fault.name # "none"
        /\ last.fault.message = EntryMessage
        /\ getContext = last.pre

\* C2, the part the code keeps: an invalid argument always raises and never
\* changes the buffer; only null raises another fault than the entry message.
C2_InvalidRaisesAndKeepsBuffer ==
    (last.op = "addToContext" /\ ~IsValidEntry(last.arg)) =>
        /\ last.fault.name # "none"
        /\ getContext = last.pre
        /\ last.arg # Null => last.fault = JsError(EntryMessage)

\* C3: a batch whose first invalid entry is at position k raises the append
\* validation fault, keeps the k-1 entries before it appended in order, and
\* appends nothing from position k on.
C3_BatchStopsAtFirstInvalid ==
    (/\ last.op = "addBatchToContext"
     /\ IsArray(last.arg)
     /\ FirstInvalid(last.arg.items) > 0) =>
        /\ last.fault.message = EntryMessage
        /\ getContext = last.pre \o SubSeq(last.arg.items, 1, FirstInvalid(last.arg.items) - 1)

\* C3, the part the code keeps: the batch raises, and the buffer holds the
\* entries before the first invalid one and nothing after.
C3_BatchKeepsPrefixOnFault ==
    (/\ last.op = "addBatchToContext"
     /\ IsArray(last.arg)
     /\ FirstInvalid(last.arg.items) > 0) =>
        /\ last.fault.name # "none"
        /\ getContext = last.pre \o SubSeq(last.arg.items, 1, FirstInvalid(last.arg.items) - 1)

\* C4: right after clear the snapshot is empty whatever the buffer held, and
\* a batch of valid entries appended next makes the snapshot exactly that
\* batch, in order.
C4_ClearThenBatch ==
    /\ last.op = "clearContext" => getContext = <<>>
    /\ (last.op = "getContext" /\ last.prevOp = "clearContext") => last.result = <<>>
    /\ (/\ last.op = "addBatchToContext"
        /\ last.prevOp = "clearContext"
        /\ IsArray(last.arg)
        /\ FirstInvalid(last.arg.items) = 0) =>
            /\ last.fault = NoFault
            /\ getContext = last.arg.items

\* a clear of a buffer that held entries, then a batch of two different entries
C4_Witness ==
    /\ last.op = "addBatchToContext"
    /\ last.prevOp = "clearContext"
    /\ IsArray(last.arg)
    /\ Len(last.arg.items) = 2
    /\ FirstInvalid(last.arg.items) = 0
    /\ last.arg.items[1] # last.arg.items[2]

\* C5: the messages of the chat payload that is sent are the buffer's entries
\* in insertion order followed by the caller's messages in their order, with
\* or without streaming, and every other option is sent as the caller gave it.
C5_ChatPayloadPrependsContext ==
    (inflight.op = "createChatCompletion") =>
        /\ inflight.data.messages = inflight.contextAtCall \o inflight.options.messages
        /\ DOMAIN inflight.data = DOMAIN inflight.options
        /\ \A f \in DOMAIN inflight.options \ {"messages"} :
                inflight.data[f] = inflight.options[f]

\* a streaming chat request built over two entries with two caller messages
C5_Witness ==
    /\ inflight.op = "createChatCompletion"
    /\ inflight.options.stream
    /\ Len(inflight.contextAtCall) = 2
    /\ inflight.contextAtCall[1] # inflight.contextAtCall[2]
    /\ Len(inflight.options.messages) = 2
    /\ inflight.options.messages[1] # inflight.options.messages[2]

\* the kind the claims give each status
KindOfStatus(status) ==
    CASE status = 400 -> "ValidationError"
      [] status = 401 -> "AuthenticationError"
      [] status = 429 -> "RateLimitError"
      [] OTHER        -> "APIError"

\* the body carries an error.message
HasErrorMessage(body) ==
    IF body.tag # "object" THEN FALSE
    ELSE IF body.error.tag # "object" THEN FALSE
    ELSE body.error.message.tag = "string"

\* a buffered request was answered with a status outside 2xx
BufferedNon2xx ==
    /\ outcome.kind # "none"
    /\ outcome.via = "request"
    /\ outcome.status # 0
    /\ ~(outcome.status >= 200 /\ outcome.status < 300)

\* C10 as stated: a non-2xx answer to a buffered request raises one fault
\* whose kind follows from the status alone, whose message is the body's
\* error.message when present and the transport's otherwise, and which
\* carries the status and the raw body.
C10_FaultMessageWhenPresent ==
    BufferedNon2xx =>
        /\ outcome.kind = "fault"
        /\ outcome.fault.name = KindOfStatus(outcome.status)
        /\ outcome.fault.message =
                IF HasErrorMessage(outcome.body)
                THEN outcome.body.error.message.s
                ELSE "Request failed with status code " \o ToString(outcome.status)
        /\ outcome.fault.statusCode = Num(outcome.status)
        /\ outcome.fault.data = outcome.body

\* C10 as amended: the message is the body's error.message when it is
\* present and not empty, and the transport's otherwise.
C10_FaultMessageWhenNonEmpty ==
    BufferedNon2xx =>
        /\ outcome.kind = "fault"
        /\ outcome.fault.name = KindOfStatus(outcome.status)
        /\ outcome.fault.message =
                IF HasErrorMessage(outcome.body) /\ outcome.body.error.message.s # ""
                THEN outcome.body.error.message.s
                ELSE "Request failed with status code " \o ToString(outcome.status)
        /\ outcome.fault.statusCode = Num(outcome.status)
        /\ outcome.fault.data = outcome.body

\* the 401 of the specification's example
C10_Witness ==
    /\ BufferedNon2xx
    /\ outcome.status = 401
    /\ outcome.body = Body(ErrorObj(Str("Unauthorized")))
    /\ outcome.fault.name = "AuthenticationError"
    /\ outcome.fault.message = "Unauthorized"

(***************************************************************************)
(* The response body as the claims read it: its text, its complete lines,   *)
(* the data: lines among them and their payloads.                          *)
(***************************************************************************)
CompleteLines ==
    LET pieces == split(toString(stream))
    IN  SubSeq(pieces, 1, Len(pieces) - 1)

IsDataLine(l) == startsWith(trim(l), DataPrefix)
Payload(l) == trim(replace(trim(l), DataSpace))
IsDoneLine(l) == IsDataLine(l) /\ Payload(l) = DoneToken
IsBadLine(l) == IsDataLine(l) /\ ~IsDoneLine(l) /\ ~JsonParse(Payload(l)).ok

\* the first complete line that ends the decoding, a [DONE] line or a data:
\* line whose payload is not JSON; one past the last line when there is none
FirstStop ==
    LET ls == CompleteLines
        stops == { i \in 1..Len(ls) : IsDoneLine(ls[i]) \/ IsBadLine(ls[i]) }
    IN  IF stops = {} THEN Len(ls) + 1
        ELSE CHOOSE i \in stops : \A j \in stops : i <= j

StopsAtDone == FirstStop <= Len(CompleteLines) /\ IsDoneLine(CompleteLines[FirstStop])
StopsAtBadLine == FirstStop <= Len(CompleteLines) /\ IsBadLine(CompleteLines[FirstStop])

RECURSIVE ParsedPayloads(_)
ParsedPayloads(ls) ==
    IF ls = <<>> THEN <<>>
    ELSE IF IsDataLine(Head(ls))
    THEN <<JsonParse(Payload(Head(ls))).value>> \o ParsedPayloads(Tail(ls))
    ELSE ParsedPayloads(Tail(ls))

\* the items of the data: lines before the first stop
ExpectedItems == ParsedPayloads(SubSeq(CompleteLines, 1, FirstStop - 1))

RECURSIVE ItemValues(_)
ItemValues(rs) ==
    IF rs = <<>> THEN <<>>
    ELSE IF Head(rs).kind = "item" THEN <<Head(rs).value>> \o ItemValues(Tail(rs))
    ELSE ItemValues(Tail(rs))

IsPrefix(a, b) == Len(a) <= Len(b) /\ SubSeq(b, 1, Len(a)) = a

\* the body holds no character of more than one byte
SingleByteBody == \A i \in 1..Len(stream) : stream[i] \notin {LeadByte, ContByte}

\* every pull after one that gave no item signals exhaustion
TerminalOnce ==
    \A i \in 2..Len(results) : results[i - 1].kind # "item" => results[i] = Exhausted

\* C6: when every data: line carries valid JSON, the decoder yields exactly
\* the parsed payloads of the complete data: lines before the first [DONE]
\* line, one per line and in line order, and then signals exhaustion; other
\* lines give no item and no fault.
C6_YieldsParsedPayloadsInOrder ==
    ((\A i \in 1..Len(CompleteLines) : ~IsBadLine(CompleteLines[i])) /\ transport # "errored") =>
        /\ \A i \in 1..Len(results) : results[i].kind # "throw"
        /\ IsPrefix(ItemValues(results), ExpectedItems)
        /\ genState = "completed" =>
                /\ ItemValues(results) = ExpectedItems
                /\ results[Len(ExpectedItems) + 1] = Exhausted

\* C6 on the bodies made of one-byte characters, where the code keeps it
C6_SingleByteBodies == SingleByteBody => C6_YieldsParsedPayloadsInOrder

\* C7: with a complete data: line that is not JSON, the items of the earlier
\* lines come first, the parse fault is raised at the pull that would have
\* given the offending line's item and at no earlier pull, and it is
\* terminal: no later pull gives an item.
C7_ParseFaultAtOffendingPull ==
    StopsAtBadLine =>
        LET n == Len(ExpectedItems)
        IN  /\ \A i \in 1..Len(results) : results[i].kind = "item" => i <= n
            /\ \A i \in 1..Len(results) :
                    results[i] = Thrown("SyntaxError") =>
                        /\ i = n + 1
                        /\ \A k \in 1..n : results[k].kind = "item"
            /\ TerminalOnce
            /\ (genState = "completed" /\ transport # "errored") =>
                    /\ Len(results) >= n + 1
                    /\ results[n + 1] = Thrown("SyntaxError")
            /\ SingleByteBody => IsPrefix(ItemValues(results), ExpectedItems)

\* one item, then the fault, then exhaustion on the pull after the fault
C7_Witness ==
    /\ StopsAtBadLine
    /\ Len(ExpectedItems) = 1
    /\ Len(results) = 3
    /\ results[1].kind = "item"
    /\ results[2] = Thrown("SyntaxError")
    /\ results[3] = Exhausted

\* what the generator gives when the whole body arrives as one chunk
RECURSIVE Drain(_)
Drain(ls) ==
    LET step == lineLoop(ls)
    IN  IF step.kind = "yield"
        THEN LET more == Drain(step.rest)
             IN  [items |-> <<step.value>> \o more.items, outcome |-> more.outcome]
        ELSE [items |-> <<>>, outcome |-> IF step.kind = "throw" THEN "throw" ELSE "done"]

OneChunk == Drain(CompleteLines)

\* the outcome the consumer saw: the first result that is no item
Outcome1(rs) ==
    LET ends == { i \in 1..Len(rs) : rs[i].kind # "item" }
    IN  rs[CHOOSE i \in ends : \A j \in ends : i <= j].kind

\* C8: however the body is cut into chunks, the decoder gives the items and
\* the final outcome it gives when the body arrives as one chunk.
C8_ChunkBoundaryIndependent ==
    (genState = "completed" /\ transport # "errored") =>
        /\ ItemValues(results) = OneChunk.items
        /\ Outcome1(results) = OneChunk.outcome

\* C8 on the bodies made of one-byte characters, where the code keeps it
C8_SingleByteBodies == SingleByteBody => C8_ChunkBoundaryIndependent

\* C9: once a [DONE] line has been processed no further item is given and
\* nothing after it is parsed: text that is not JSON after [DONE], in the
\* same chunk, in the held-back partial line or in later chunks, raises no
\* fault.
C9_NothingAfterDone ==
    StopsAtDone =>
        LET n == Len(ExpectedItems)
        IN  /\ \A i \in 1..Len(results) : results[i].kind = "item" => i <= n
            /\ \A i \in 1..Len(results) : results[i] # Thrown("SyntaxError")
            /\ TerminalOnce
            /\ (genState = "completed" /\ transport # "errored") =>
                    /\ Len(results) >= n + 1
                    /\ results[n + 1] = Exhausted
                    /\ transport = "destroyed"

\* [DONE] processed with a partial line held back and bytes still to come,
\* where the line after [DONE] is not JSON
C9_Witness ==
    /\ StopsAtDone
    /\ genState = "completed"
    /\ transport = "destroyed"
    /\ buffer # <<>>
    /\ wire # <<>>
    /\ \E i \in (FirstStop + 1)..Len(CompleteLines) : IsBadLine(CompleteLines[i])

\* C11: a batch append whose argument is not an array raises a fault with
\* the array message and leaves the buffer as it was.
C11_NonArrayBatchRaisesArrayMessage ==
    (last.op = "addBatchToContext" /\ ~IsArray(last.arg)) =>
        /\ last.fault.name # "none"
        /\ last.fault.message = ArrayMessage
        /\ getContext = last.pre

\* null passed as the batch to a buffer that holds entries
C11_Witness ==
    /\ last.op = "addBatchToContext"
    /\ last.arg = Null
    /\ Len(last.pre) = 2
    /\ last.fault = JsError(ArrayMessage)

\* C12: once a pull has signalled exhaustion or raised a fault, every later
\* pull signals exhaustion or failure and none gives an item, whatever bytes
\* and lines are left; the generator stays completed.
C12_NotRestartable ==
    /\ \A i \in 1..Len(results) : \A j \in (i + 1)..Len(results) :
            results[i].kind # "item" => results[j].kind \in {"done", "throw"}
    /\ (\E i \in 1..Len(results) : results[i].kind # "item") => genState = "completed"

\* a pull after the return on [DONE], with held-back bytes and bytes the
\* transport never delivered left behind
C12_Witness ==
    /\ Len(results) >= 2
    /\ results[Len(results) - 1] = Exhausted
    /\ results[Len(results)] = Exhausted
    /\ transport = "destroyed"
    /\ buffer # <<>>
    /\ wire # <<>>

\* C13: wherever the consumer gives the sequence up (before the first pull,
\* between pulls, after some items) the transport stream is released: in no
\* state has the consumer returned, the generator completed and the stream
\* stayed open.
C13_AbandonReleasesTransport ==
    ~(HasReturned /\ genState = "completed" /\ transport = "open")

\* the part that holds: a sequence given up after at least one pull was
\* answered leaves no open stream
C13_ReleasedAfterFirstPull ==
    (HasReturned /\ results[1] # Returned) => transport # "open"

\* the kinds a status gives
StatusKinds == {"ValidationError", "AuthenticationError", "RateLimitError", "APIError"}

\* a request was settled by a failure that has no response
FailedWithoutResponse ==
    /\ outcome.kind = "fault"
    /\ outcome.error.name = "AxiosError"
    /\ ~outcome.error.hasResponse

\* what the caller of a request through via catches for this transport error
Surfaced(via, error) == IF via = "request" THEN handleError(error) ELSE error

\* the fault has no status code: a client fault without statusCode, or the
\* transport's own error without a response
NoStatusCode(fault) ==
    IF fault.name = "AxiosError" THEN ~fault.hasResponse
    ELSE fault.statusCode = Undefined

\* text is m, or m behind one of the prefixes the client writes
Carries(text, m) == \E p \in {"", "Network error: ", "Error: "} : text = p \o m

C15_EveryPathClassifiesByStatus ==
    (outcome.kind # "none" /\ outcome.status # 0 /\ ~ValidateStatus(outcome.status)) =>
        /\ outcome.kind = "fault"
        /\ outcome.fault.name = KindOfStatus(outcome.status)

\* the part that holds: what a streaming request raises for a status outside
\* 2xx is the transport's error, unclassified
C15_StreamingRaisesTransportError ==
    (outcome.kind # "none" /\ outcome.via = "post" /\ ~ValidateStatus(outcome.status)) =>
        /\ outcome.kind = "fault"
        /\ outcome.fault = outcome.error
        /\ outcome.fault.name = "AxiosError"

\* C16: after any sequence of appends, batch appends, clears, snapshots and
\* chat requests, and whatever the caller does with a snapshot it was given,
\* every entry of the buffer has a valid role and a text content, and the
\* buffer's contents change only across an append, batch append or clear.
C16_ValidEntriesChangedOnlyByBufferOps ==
    [][ /\ \A i \in 1..Len(context') : IsValidEntry(context'[i])
        /\ context' # context =>
              \/ \E e \in EntryArgs : AddToContext(e)
              \/ \E b \in BatchArgs : AddBatchToContext(b)
              \/ ClearContext ]_vars

\* the part that holds: an array the client has let go of is out of reach;
\* writing to it leaves the buffer alone
C16_DetachedViewLeavesBuffer ==
    [][ (view.state = "detached" /\ view' # view) => context' = context ]_vars

\* C17: a chat request carries the buffer as it is when the request is
\* built (so two requests built over the same buffer carry the same context
\* before their own messages), and every send of it, the first and each
\* re-send, carries those same messages whatever is appended to or cleared
\* from the buffer while it is in flight.
C17_MessagesFixedWhenBuilt ==
    [][ /\ (inflight = Idle /\ inflight'.op = "createChatCompletion") =>
              inflight'.sent = <<[inflight'.options EXCEPT
                                    !.messages = context \o inflight'.options.messages]>>
        /\ (inflight.op = "createChatCompletion" /\ inflight' # Idle) =>
              \A i \in 1..Len(inflight'.sent) : inflight'.sent[i] = inflight.sent[1] ]_vars

\* the third send of a chat request built over one entry, after the buffer
\* grew to two entries and was cleared
C17_Witness ==
    /\ inflight.op = "createChatCompletion"
    /\ Len(inflight.sent) = 3
    /\ Len(inflight.sent[3].messages) = 2
    /\ context = <<>>
    /\ last.op = "clearContext"
    /\ Len(last.pre) = 2

\* the bytes of the chunks the generator was handed, their complete lines,
\* and the partial line after them
Delivered == SubSeq(stream, 1, Len(stream) - Len(wire))
DeliveredLines ==
    LET pieces == split(toString(Delivered))
    IN  SubSeq(pieces, 1, Len(pieces) - 1)
HeldBack ==
    LET pieces == split(toString(Delivered))
    IN  pieces[Len(pieces)]

\* a delivered chunk completed a data: line that is not JSON
DeliveredBadLine == \E i \in 1..Len(DeliveredLines) : IsBadLine(DeliveredLines[i])

\* a delivered chunk completed a [DONE] line
DeliveredDoneLine == \E i \in 1..Len(DeliveredLines) : IsDoneLine(DeliveredLines[i])

\* the data: lines completed by the delivered chunks that carry an item
DeliveredItemLines ==
    { i \in 1..Len(DeliveredLines) :
        IsDataLine(DeliveredLines[i]) /\ ~IsDoneLine(DeliveredLines[i]) }

\* the items of every line the delivered chunks completed come first, the
\* stream's error is raised at the pull after them, and nothing follows
ErrorAfterDeliveredItems ==
    LET n == Cardinality(DeliveredItemLines)
    IN  /\ \A i \in 1..Len(results) : results[i].kind = "item" => i <= n
        /\ \A i \in 1..Len(results) :
                results[i].kind # "item" =>
                    /\ i > n
                    /\ \A k \in 1..n : results[k].kind = "item"
        /\ genState = "completed" =>
                /\ Len(results) >= n + 1
                /\ results[n + 1] = Thrown("StreamError")
        /\ TerminalOnce
        /\ SingleByteBody => IsPrefix(ItemValues(results), ParsedPayloads(DeliveredLines))

C19_FiniteAndNeverBlocked ==
    /\ [](genState = "awaiting" =>
            /\ lines = <<>>
            /\ Len(ItemValues(results)) = Cardinality(DeliveredItemLines))
    /\ (genState = "awaiting" ~> genState # "awaiting")
    /\ <>(genState = "completed" /\ results # <<>>
            /\ results[Len(results)].kind \in {"done", "throw"})

\* two items, each given at its own pull, then the end of the body
C19_Witness ==
    /\ genState = "completed"
    /\ transport = "ended"
    /\ Len(results) = 3
    /\ results[1].kind = "item"
    /\ results[2].kind = "item"
    /\ results[3] = Exhausted

\* the retries the claims give a client: 3, or the count it was built with
ConfiguredRetries ==
    IF axiosRetryConfig = Undefined THEN DefaultRetries ELSE axiosRetryConfig.retries

\* C20: a request is sent at most 1 + retries times (retries is 3 unless
\* axiosRetryConfig sets it); every re-send follows a failure that satisfies
\* the retry predicate; once a fault was classified and raised the request is
\* not sent again (the next send is the first send of a new call); and no
\* step of a streaming body's decoding, a parse fault and a transport error
\* included, sends a request.
C20_RetriesOnlyInsideTransport ==
    [][ /\ inflight' # Idle => inflight'.attempts <= 1 + ConfiguredRetries
        /\ (inflight # Idle /\ inflight' # Idle /\ inflight' # inflight) =>
              /\ inflight'.attempts = inflight.attempts + 1
              /\ inflight'.cause = "retryable"
              /\ outcome' = outcome
        /\ (inflight # Idle /\ inflight' = Idle) => outcome'.kind # "none"
        /\ (inflight = Idle /\ inflight' # Idle) =>
              /\ inflight'.attempts = 1
              /\ inflight'.cause = "call"
        /\ (results' # results \/ genState' # genState \/ wire' # wire) =>
              inflight' = inflight ]_vars

\* a client with the constructor's retries: a streamed body ended in a parse
\* fault, and a later request is at its fourth send
C20_Witness ==
    /\ axiosRetryConfig = Undefined
    /\ inflight # Idle
    /\ inflight.attempts = 1 + DefaultRetries
    /\ inflight.cause = "retryable"
    /\ genState = "completed"
    /\ \E i \in 1..Len(results) : results[i] = Thrown("SyntaxError")

\* a client built with retries: 4 sends a request five times
C20_OverrideReached ==
    /\ axiosRetryConfig = RetryConfig(4)
    /\ inflight # Idle
    /\ inflight.attempts = 5

\* C21: clear puts a new array in place of the old one.  An array the
\* caller kept from getContext shows after a clear what it showed before it,
\* and no later append changes it; an array kept with no clear since shows
\* every entry appended after it was taken.
C21_ClearReplacesBackingArray ==
    [][ /\ (ClearContext /\ view # NoView) =>
              /\ ViewItems' = ViewItems
              /\ context' = <<>>
        /\ (last' # last /\ last'.op \in {"addToContext", "addBatchToContext"}) =>
              /\ view.state = "detached" => ViewItems' = ViewItems
              /\ view = Alias => (view' = Alias /\ ViewItems' = context') ]_vars

\* an array kept while the buffer held two entries, after a clear and one
\* more append: it still shows the two
C21_Witness ==
    /\ view.state = "detached"
    /\ Len(view.items) = 2
    /\ Len(context) = 1
    /\ last.op = "addToContext"
    /\ last.prevOp = "clearContext"

\* an array kept while the buffer was empty, with no clear since, shows the
\* entry appended after it was taken
C21_AliasShowsLaterAppend ==
    /\ view = Alias
    /\ last.op = "addToContext"
    /\ last.prevOp = "getContext"
    /\ last.pre = <<>>
    /\ Len(ViewItems) = 1

\* C23: no request operation writes to the buffer.  A step that starts a
\* request or settles one (with a value, a fault or an iterable) leaves the
\* buffer as it was, so neither the caller's messages nor the reply are put
\* into it; and every send of a createCompletion request carries the
\* caller's options and nothing of the buffer.
C23_RequestsLeaveBuffer ==
    [][ /\ (inflight' # inflight \/ outcome' # outcome) => context' = context
        /\ (inflight'.op = "createCompletion") =>
              /\ \A i \in 1..Len(inflight'.sent) : inflight'.sent[i] = inflight'.options
              /\ "messages" \notin DOMAIN inflight'.data ]_vars

\* a chat call with a message of the caller's, made over a buffer of one
\* entry, was answered with a reply: the buffer holds the one entry
C23_Witness ==
    /\ outcome.kind = "value"
    /\ outcome.op = "createChatCompletion"
    /\ outcome.body # Null
    /\ Len(context) = 1
    /\ last.op = "addToContext"

\* a chat call ended in a fault over a buffer that holds an entry
C23_FaultReached ==
    /\ outcome.kind = "fault"
    /\ outcome.op = "createChatCompletion"
    /\ context # <<>>

\* a streaming chat call was answered over a buffer that holds an entry
C23_StreamingReached ==
    /\ outcome.kind = "iterable"
    /\ outcome.op = "createChatCompletion"
    /\ context # <<>>

\* a createCompletion request is in flight over a buffer that holds an entry
C23_CompletionOverBuffer ==
    /\ inflight.op = "createCompletion"
    /\ inflight.contextAtCall # <<>>

\* the data: lines among the complete lines of the body
DataLineCount == Cardinality({ i \in 1..Len(CompleteLines) : IsDataLine(CompleteLines[i]) })

\* C24: when the stream ends with no [DONE] line processed, the sequence
\* signals exhaustion and no pull raised a fault; the text after the last
\* newline was never run through the line loop: the items are those of the
\* complete lines, one per data: line, and the text is still held back,
\* whether it is a data: line with valid JSON, a [DONE] line or anything else.
C24_UnterminatedLastLineDropped ==
    transport = "ended" =>
        /\ genState = "completed"
        /\ \A i \in 1..Len(results) : results[i].kind # "throw"
        /\ Len(ItemValues(results)) = DataLineCount
        /\ results[DataLineCount + 1] = Exhausted
        /\ TerminalOnce
        /\ SingleByteBody =>
              /\ ItemValues(results) = ParsedPayloads(CompleteLines)
              /\ buffer = HeldBack

\* the stream ended after one item with `data: 1` held back, unterminated
C24_Witness ==
    /\ transport = "ended"
    /\ buffer = <<"d", "a", "t", "a", ":", " ", "1">>
    /\ Len(ItemValues(results)) = 1
    /\ results[2] = Exhausted

\* the stream ended with `data: [DONE]` held back, unterminated
C24_DoneHeldBack ==
    /\ transport = "ended"
    /\ buffer = DataSpace \o DoneToken
    /\ results[Len(results)] = Exhausted

\* the stream ended with `data: x`, which is not JSON, held back
C24_BadLineHeldBack ==
    /\ transport = "ended"
    /\ buffer = <<"d", "a", "t", "a", ":", " ", "x">>
    /\ \A i \in 1..Len(results) : results[i].kind # "throw"

\* a line that starts with data: and has no space after the colon
NoSpaceLine(l) == startsWith(trim(l), DataPrefix) /\ ~startsWith(trim(l), DataSpace)

\* the first complete line of that kind; one past the last line when there is none
FirstNoSpace ==
    LET ls == CompleteLines
        found == { i \in 1..Len(ls) : NoSpaceLine(ls[i]) }
    IN  IF found = {} THEN Len(ls) + 1
        ELSE CHOOSE i \in found : \A j \in found : i <= j

\* the data: lines before it
ItemsBeforeNoSpace ==
    Cardinality({ i \in 1..(FirstNoSpace - 1) : IsDataLine(CompleteLines[i]) })

\* C25: only `data: ` with its space is taken off a data: line.  A complete
\* line that starts with data: with no space after the colon, reached with
\* no [DONE] line and no parse fault before it, gives no item and does not
\* end the sequence as [DONE] does: the pull that reaches it raises the
\* parse fault, no pull gives an item for it or after it, the first pull
\* that gives no item raises a fault (the parse fault, or the transport's
\* when the connection fails first), and every later pull signals exhaustion.
C25_NoSpaceLineRaisesParseFault ==
    (FirstNoSpace <= Len(CompleteLines) /\ FirstStop >= FirstNoSpace) =>
        LET n == ItemsBeforeNoSpace
        IN  /\ \A i \in 1..Len(results) : results[i].kind = "item" => i <= n
            /\ \A i \in 1..Len(results) :
                    (results[i].kind # "item" /\ \A j \in 1..(i - 1) : results[j].kind = "item")
                        => results[i].kind = "throw"
            /\ \A i \in 1..Len(results) : results[i] = Thrown("SyntaxError") => i = n + 1
            /\ TerminalOnce
            /\ (genState = "completed" /\ transport # "errored") =>
                    /\ Len(results) >= n + 1
                    /\ results[n + 1] = Thrown("SyntaxError")
                    /\ transport = "destroyed"

\* `data: 1` gave its item, `data:[DONE]` raised the parse fault, and the
\* pull after it signalled exhaustion
C25_Witness ==
    /\ CompleteLines = << <<"d", "a", "t", "a", ":", " ", "1">>,
                          <<"d", "a", "t", "a", ":", "[", "D", "O", "N", "E", "]">> >>
    /\ results = <<Item(Num(1)), Thrown("SyntaxError"), Exhausted>>

\* `data:1`, a payload that is JSON with no space before it, raised the fault
C25_JsonWithoutSpace ==
    /\ CompleteLines = << <<"d", "a", "t", "a", ":", "1">> >>
    /\ results = <<Thrown("SyntaxError")>>

\* a bare `data:` raised the fault
C25_BareData ==
    /\ CompleteLines = << <<"d", "a", "t", "a", ":">> >>
    /\ results = <<Thrown("SyntaxError")>>

\* `data:data: 1`: the `data: ` taken out is the one inside the line, and
\* what is left, `data:1`, raised the fault
C25_InnerDataSpace ==
    /\ CompleteLines = << <<"d", "a", "t", "a", ":", "d", "a", "t", "a", ":", " ", "1">> >>
    /\ results = <<Thrown("SyntaxError")>>

\* generator i of the two
Gen(i) == IF other.id = i THEN other ELSE Running

\* what a generator gives over this body when it is the only one
Alone(body) ==
    LET pieces == split(toString(body))
    IN  Drain(SubSeq(pieces, 1, Len(pieces) - 1))

\* the text after the last newline of the bytes a generator was handed
HeldBackOf(d) ==
    LET pieces == split(toString(SubSeq(d.stream, 1, Len(d.stream) - Len(d.wire))))
    IN  pieces[Len(pieces)]

\* a generator's items and outcome are those of its own body decoded alone,
\* and its buffer holds text of its own body only
DecodesAsAlone(d) ==
    /\ d.buffer = HeldBackOf(d)
    /\ IsPrefix(ItemValues(d.results), Alone(d.stream).items)
    /\ d.genState = "completed" =>
          \/ /\ d.transport # "errored"
             /\ ItemValues(d.results) = Alone(d.stream).items
             /\ Outcome1(d.results) = Alone(d.stream).outcome
          \/ /\ d.transport = "errored"
             /\ Outcome1(d.results) \in {"throw", Alone(d.stream).outcome}

\* C22: two streaming calls of one client are independent.  Each generator
\* has its own buffer: under every interleaving of chunks and pulls on the
\* two streams, each one's items and outcome are those of its own body
\* decoded alone, and a step of one generator (a chunk, a pull, a fault, a
\* [DONE], a connection failure) changes nothing of the other.
C22_ConcurrentStreamsIndependent ==
    /\ [](\A i \in {1, 2} : DecodesAsAlone(Gen(i)))
    /\ [][\A i \in {1, 2} :
            (other'.id # other.id \/ other.id = i) => Gen(i)' = Gen(i)]_vars

\* the first generator raised its parse fault while the second was waiting
\* in the middle of a line after its first item
C22_Witness ==
    /\ Gen(1).genState = "completed"
    /\ Gen(1).results = <<Item(Num(1)), Thrown("SyntaxError")>>
    /\ Gen(2).genState = "awaiting"
    /\ Gen(2).results = <<Item(Num(2))>>
    /\ Gen(2).buffer # <<>>
    /\ Gen(2).wire # <<>>

\* after the first generator's fault the second went on to its [DONE]
C22_OtherCompletesAfterFault ==
    /\ Gen(1).results = <<Item(Num(1)), Thrown("SyntaxError")>>
    /\ Gen(2).results = <<Item(Num(2)), Exhausted>>
    /\ Gen(2).transport = "destroyed"
    /\ Gen(1).transport = "destroyed"

\* both generators hold a partial line, each of its own body
C22_BothHoldText ==
    /\ Gen(1).buffer # <<>>
    /\ Gen(2).buffer # <<>>
    /\ Gen(1).buffer # Gen(2).buffer

====
